---- MODULE Spec2Model ----
(***************************************************************************)
(* Model of the YouTube resolution / proxied-streaming API                 *)
(* (src/fix_thumbnails.py): API-key gate, /youtube handler, format         *)
(* selection, the stream-handle registry kept in the in-memory `cache`     *)
(* dict, the /stream proxy and the periodic sweep.                         *)
(*                                                                         *)
(* Conventions.  Python strings that the code inspects (queries, URLs)     *)
(* are sequences of one-character strings, so "" is << >>.  Opaque         *)
(* strings (titles, upstream URLs, API keys) are TLA+ strings.  Python     *)
(* None is the record None.  A dict is a record; a missing dict key is a   *)
(* missing record field.  time.time() and datetime.now() are the integer   *)
(* variable now (seconds).  Each HTTP handler is one atomic action; the    *)
(* database is assumed to answer queries and commits without error.        *)
(***************************************************************************)
EXTENDS Integers, Sequences, FiniteSets, TLC

VARIABLES
    now,      \* the wall clock (seconds)
    cache,    \* the global dict `cache`: key -> entry
    order,    \* the keys of `cache` in the dict's (insertion) order
    nextId,   \* number of uuid4 stream ids generated so far
    keys,     \* table api_keys: key string -> row
    apilog,   \* number of rows in table api_logs
    resp,     \* the last HTTP exchange (request inputs and response)
    issued,   \* history: handle id -> expiry it was created with
    uses,     \* history: handle id -> number of GETs that found it
    swept,    \* history: cleanup_old_files ran since the last handle was created
    sweeps,   \* request thread -> the locals of its cleanup_old_files pass
    gate      \* request thread -> its position in required_api_key; history:
              \* key -> number of requests admitted to the handler

vars == <<now, cache, order, nextId, keys, apilog, resp, issued, uses, swept, sweeps, gate>>

----------------------------------------------------------------------------
(* Bounds of the exploration *)

MaxTicks == 2
MaxUses == 2

(* Program constants *)

CACHE_TIMEOUT == 3600
STREAM_TTL == 3600
DAY == 86400

(* The clock advances in steps of two thirds of a handle lifetime, so that a
   handle is alive one step after its creation and expired two steps after. *)
TickStep == (2 * STREAM_TTL) \div 3

None == [pynone |-> TRUE]

----------------------------------------------------------------------------
(* Strings as character sequences *)

Http == <<"h","t","t","p",":","/","/">>
Https == <<"h","t","t","p","s",":","/","/">>
Www == <<"w","w","w",".">>
YoutubeCom == <<"y","o","u","t","u","b","e",".","c","o","m","/">>
YoutuBe == <<"y","o","u","t","u",".","b","e","/">>
WatchV == <<"w","a","t","c","h","?","v","=">>
Embed == <<"e","m","b","e","d","/">>
VSlash == <<"v","/">>
WatchPrefix == Https \o Www \o YoutubeCom \o WatchV

LowerLetters ==
    <<"a","b","c","d","e","f","g","h","i","j","k","l","m",
      "n","o","p","q","r","s","t","u","v","w","x","y","z">>
UpperLetters ==
    <<"A","B","C","D","E","F","G","H","I","J","K","L","M",
      "N","O","P","Q","R","S","T","U","V","W","X","Y","Z">>
Digits == {"0","1","2","3","4","5","6","7","8","9"}

Range(s) == {s[i] : i \in DOMAIN s}
UpperSet == Range(UpperLetters)

\* the character class [a-zA-Z0-9_-]
IdChars == Range(LowerLetters) \cup UpperSet \cup Digits \cup {"_", "-"}

StartsWith(s, p) == Len(s) >= Len(p) /\ SubSeq(s, 1, Len(p)) = p

\* str.lower()
LowerChar(c) ==
    IF c \in UpperSet
    THEN LowerLetters[CHOOSE i \in DOMAIN UpperLetters : UpperLetters[i] = c]
    ELSE c
lower(s) == [i \in DOMAIN s |-> LowerChar(s[i])]

\* re.match(r'^[a-zA-Z0-9_-]{11}$', q): `$` also matches before one final newline
is_video_id(q) ==
    /\ Len(q) \in {11, 12}
    /\ \A i \in 1..11 : q[i] \in IdChars
    /\ Len(q) = 12 => q[12] = "\n"

\* what the four patterns of is_youtube_url match at the start of a string:
\* (?:https?:\/\/)?(?:www\.)? followed by one of the four shapes
UrlPrefixes ==
    {scheme \o w \o shape :
        scheme \in {<< >>, Http, Https}, w \in {<< >>, Www},
        shape \in {YoutubeCom \o WatchV, YoutuBe, YoutubeCom \o Embed, YoutubeCom \o VSlash}}

\* is_youtube_url: re.match of one of the four patterns
is_youtube_url(url) == \E p \in UrlPrefixes : StartsWith(url, p)

\* [0-9A-Za-z_-]{11} matches at position i of s
IdAt(s, i) == i >= 1 /\ i + 10 <= Len(s) /\ \A j \in i..(i + 10) : s[j] \in IdChars

\* the positions where re.search finds one of the literals `lits` followed by
\* eleven id characters
LitMatches(s, lits) ==
    {i \in 1..Len(s) :
        \E l \in lits : /\ i + Len(l) - 1 <= Len(s)
                        /\ SubSeq(s, i, i + Len(l) - 1) = l
                        /\ IdAt(s, i + Len(l))}

\* group(1) of re.search for (?:lit1|lit2...)([0-9A-Za-z_-]{11}): the leftmost
\* match; << >> stands for "no match" (a match has eleven characters)
search_id(s, lits) ==
    LET m == LitMatches(s, lits)
    IN  IF m = {} THEN << >>
        ELSE LET i == CHOOSE x \in m : \A y \in m : x <= y
                 l == CHOOSE x \in lits :
                         /\ i + Len(x) - 1 <= Len(s)
                         /\ SubSeq(s, i, i + Len(x) - 1) = x
                         /\ IdAt(s, i + Len(x))
             IN  SubSeq(s, i + Len(l), i + Len(l) + 10)

\* extract_video_id: the four patterns in order, the first that matches wins;
\* << >> stands for the result None
extract_video_id(url) ==
    LET p1 == search_id(url, {<<"v","=">>, <<"/">>})
        p2 == search_id(url, {Embed})
        p3 == search_id(url, {WatchV})
    IN  IF p1 # << >> THEN p1
        ELSE IF p2 # << >> THEN p2
        ELSE IF p3 # << >> THEN p3
        ELSE IF is_video_id(url) THEN SubSeq(url, 1, 11)
        ELSE << >>

\* normalize_url(url, video_id); video_id None or "" is << >>
normalize_url(url, video_id) ==
    IF video_id # << >> THEN WatchPrefix \o video_id
    ELSE IF is_youtube_url(url)
         THEN LET id == extract_video_id(url)
              IN  IF id # << >> THEN WatchPrefix \o id ELSE url
    ELSE url

----------------------------------------------------------------------------
(* Dict access *)

\* d.get(f, dflt)
Get(d, f, dflt) == IF f \in DOMAIN d THEN d[f] ELSE dflt

\* the outcome "the call raised an exception"
Raise == [pyraise |-> TRUE]

Last(s) == s[Len(s)]

----------------------------------------------------------------------------
(* API keys: class ApiKey *)

\* ApiKey.is_expired
is_expired(k, t) == t > k.valid_until

remaining_requests_Mut(k, t) ==
    IF t > k.reset_at THEN k.daily_limit ELSE k.daily_limit - k.count + 1

\* ApiKey.remaining_requests
remaining_requests(k, t) ==
    IF t > k.reset_at THEN k.daily_limit ELSE k.daily_limit - k.count

log_api_request_Mut(ks, api_key_str, t) ==
    IF api_key_str \in DOMAIN ks
    THEN [ks EXCEPT ![api_key_str] =
            IF t > @.reset_at
            THEN [@ EXCEPT !.count = 1, !.reset_at = t + DAY]
            ELSE [@ EXCEPT !.count = @ + 2]]
    ELSE ks

log_api_request_KeepWindow(ks, api_key_str, t) ==
    IF api_key_str \in DOMAIN ks
    THEN [ks EXCEPT ![api_key_str] =
            IF t > @.reset_at
            THEN [@ EXCEPT !.count = 1]
            ELSE [@ EXCEPT !.count = @ + 1]]
    ELSE ks

\* log_api_request: the update of the key row (count / reset_at)
log_api_request(ks, api_key_str, t) ==
    IF api_key_str \in DOMAIN ks
    THEN [ks EXCEPT ![api_key_str] =
            IF t > @.reset_at
            THEN [@ EXCEPT !.count = 1, !.reset_at = t + DAY]
            ELSE [@ EXCEPT !.count = @ + 1]]
    ELSE ks

\* log_api_request: the ApiLog row added
log_rows(ks, api_key_str, n) == IF api_key_str \in DOMAIN ks THEN n + 1 ELSE n

required_api_key_Mut(ks, api_key_str, t) ==
    IF api_key_str = "" THEN [status |-> 401, error |-> "API key is required"]
    ELSE IF api_key_str \notin DOMAIN ks THEN [status |-> 0, error |-> ""]
    ELSE IF is_expired(ks[api_key_str], t) THEN [status |-> 0, error |-> ""]
    ELSE IF remaining_requests(ks[api_key_str], t) <= 0
         THEN [status |-> 429, error |-> "Daily limit exceeded"]
    ELSE [status |-> 0, error |-> ""]

\* required_api_key: the checks made before the handler runs; status 0 = admitted
required_api_key(ks, api_key_str, t) ==
    IF api_key_str = "" THEN [status |-> 401, error |-> "API key is required"]
    ELSE IF api_key_str \notin DOMAIN ks THEN [status |-> 401, error |-> "Invalid API key"]
    ELSE IF is_expired(ks[api_key_str], t) THEN [status |-> 401, error |-> "API key has expired"]
    ELSE IF remaining_requests(ks[api_key_str], t) <= 0
         THEN [status |-> 429, error |-> "Daily limit exceeded"]
    ELSE [status |-> 0, error |-> ""]

----------------------------------------------------------------------------
(* Format selection and handle creation: YouTubeAPIService.get_stream_url *)

\* f.get('vcodec') != 'none'  (a missing key gives None, which differs from 'none')
has_vcodec(f) == IF "vcodec" \in DOMAIN f THEN f.vcodec # "none" ELSE TRUE
\* f.get('acodec') != 'none'
has_acodec(f) == IF "acodec" \in DOMAIN f THEN f.acodec # "none" ELSE TRUE

select_format_Mut(formats, is_video) ==
    LET video_formats == SelectSeq(formats, has_vcodec)
        audio_formats == SelectSeq(formats, has_acodec)
    IN  IF is_video
        THEN IF video_formats # << >> THEN Last(video_formats) ELSE Last(formats)
        ELSE IF audio_formats # << >> THEN Last(audio_formats) ELSE Last(formats)

\* The format whose URL is taken from a non-empty format list
select_format(formats, is_video) ==
    LET both_formats == SelectSeq(formats, LAMBDA f : has_vcodec(f) /\ has_acodec(f))
        v_formats == SelectSeq(formats, has_vcodec)
        video_formats == IF both_formats = << >> THEN v_formats ELSE both_formats
        only_a_formats == SelectSeq(formats, LAMBDA f : has_acodec(f) /\ ~has_vcodec(f))
        a_formats == SelectSeq(formats, has_acodec)
        audio_formats == IF only_a_formats = << >> THEN a_formats ELSE only_a_formats
    IN  IF is_video
        THEN IF video_formats # << >> THEN Last(video_formats) ELSE Last(formats)
        ELSE IF audio_formats # << >> THEN Last(audio_formats) ELSE Last(formats)

\* the key f"stream:{stream_id}" of the handle with the n-th generated uuid
stream_key(n) == <<"stream", n>>

\* stream_data, a dict stored in cache
stream_data(url, is_video, t) ==
    [pytype |-> "dict", url |-> url, is_video |-> is_video, expires |-> t + STREAM_TTL]

\* The URL get_stream_url takes from the extraction outcome `info`:
\* [found |-> FALSE] stands for the paths that return "" (no info, no url and
\* no formats, an exception such as the KeyError of a format without 'url').
stream_url_of(info, is_video) ==
    IF info = Raise \/ info = None THEN [found |-> FALSE]
    ELSE IF "url" \in DOMAIN info THEN [found |-> TRUE, url |-> info.url]
    ELSE IF "formats" \in DOMAIN info /\ info.formats # << >>
         THEN LET f == select_format(info.formats, is_video)
              IN  IF "url" \in DOMAIN f THEN [found |-> TRUE, url |-> f.url]
                  ELSE [found |-> FALSE]
    ELSE [found |-> FALSE]

\* get_stream_url: returns the path /stream/<id> (modelled <<"stream", id>>) after
\* storing the handle, or "" (modelled << >>); c is the cache, nid the number
\* of ids generated so far, t the time
get_stream_url(info, is_video, c, nid, t) ==
    LET su == stream_url_of(info, is_video)
    IN  IF su.found
        THEN [ret |-> <<"stream", nid + 1>>,
              cache |-> (stream_key(nid + 1) :> stream_data(su.url, is_video, t)) @@ c,
              nextId |-> nid + 1]
        ELSE [ret |-> << >>, cache |-> c, nextId |-> nid]

----------------------------------------------------------------------------
(* Thumbnails: get_youtube_thumbnail, extract_best_thumbnail,
   ensure_thumbnail_availability *)

ThumbBase == <<"h","t","t","p","s",":","/","/","i",".","y","t","i","m","g",".","c","o","m","/","v","i","/">>
DotJpg == <<".","j","p","g">>
Qualities == <<<<"m","a","x","r","e","s","d","e","f","a","u","l","t">>,
               <<"h","q","d","e","f","a","u","l","t">>,
               <<"m","q","d","e","f","a","u","l","t">>,
               <<"d","e","f","a","u","l","t">>>>

\* get_youtube_thumbnail: the loop returns on its first iteration, so the
\* result uses `quality` when it is a listed one and maxresdefault otherwise
get_youtube_thumbnail(video_id, quality) ==
    IF video_id = << >> THEN << >>
    ELSE LET qualities == IF quality \in Range(Qualities)
                          THEN <<quality>> \o Qualities ELSE Qualities
         IN  ThumbBase \o video_id \o <<"/">> \o qualities[1] \o DotJpg

\* x.get('width', 0) * x.get('height', 0)
thumb_area(x) == Get(x, "width", 0) * Get(x, "height", 0)

\* the thumbnail variants extract_best_thumbnail keeps, line 50
valid_thumbnails_of(info_dict) ==
    SelectSeq(Get(info_dict, "thumbnails", << >>),
              LAMBDA x : x # None /\ Get(x, "url", << >>) # << >>)

\* the keys of a thumbnail variant that are present with the value None (a
\* variant record lists them in its field nones; its other fields hold values)
none_keys(x) == Get(x, "nones", {})

\* the key function of max() at lines 54-55 raises TypeError: a kept variant
\* carries width or height with the value None, and a product with None is
\* an error
extract_best_thumbnail_raises(info_dict) ==
    \E i \in DOMAIN valid_thumbnails_of(info_dict) :
        none_keys(valid_thumbnails_of(info_dict)[i]) \cap {"width", "height"} # {}

\* extract_best_thumbnail when it does not raise; max() returns the first
\* entry of maximal key
extract_best_thumbnail(info_dict) ==
    LET video_id == Get(info_dict, "id", << >>)
        thumbnails == Get(info_dict, "thumbnails", << >>)
        valid_thumbnails ==
            SelectSeq(thumbnails, LAMBDA x : x # None /\ Get(x, "url", << >>) # << >>)
        best == CHOOSE i \in DOMAIN valid_thumbnails :
                    /\ \A j \in DOMAIN valid_thumbnails :
                          thumb_area(valid_thumbnails[j]) <= thumb_area(valid_thumbnails[i])
                    /\ \A j \in 1..(i - 1) :
                          thumb_area(valid_thumbnails[j]) < thumb_area(valid_thumbnails[i])
        direct_thumbnail == Get(info_dict, "thumbnail", << >>)
    IN  IF valid_thumbnails # << >> THEN valid_thumbnails[best].url
        ELSE IF direct_thumbnail # << >> THEN direct_thumbnail
        ELSE IF video_id # << >> THEN get_youtube_thumbnail(video_id, Qualities[1])
        ELSE << >>

\* ensure_thumbnail_availability
ensure_thumbnail_availability(video_data) ==
    IF video_data.thumbnail = << >> /\ video_data.id # << >>
    THEN [video_data EXCEPT !.thumbnail = get_youtube_thumbnail(video_data.id, Qualities[1])]
    ELSE video_data

----------------------------------------------------------------------------
(* Resolution: YouTubeAPIService.search_videos and get_details *)

DigitSeq == <<"0","1","2","3","4","5","6","7","8","9">>
TwoDigits(n) == <<DigitSeq[(n \div 10) + 1], DigitSeq[(n % 10) + 1]>>
Decimal(n) == IF n < 10 THEN <<DigitSeq[n + 1]>> ELSE TwoDigits(n)

\* str(datetime.timedelta(seconds=duration)) for a duration below one day,
\* with a leading "0:" removed; "0:00" for a zero duration
duration_text_of(duration) ==
    IF duration = 0 THEN <<"0",":","0","0">>
    ELSE LET txt == Decimal(duration \div 3600) \o <<":">>
                    \o TwoDigits((duration % 3600) \div 60) \o <<":">>
                    \o TwoDigits(duration % 60)
         IN  IF StartsWith(txt, <<"0",":">>) THEN SubSeq(txt, 3, Len(txt)) ELSE txt

Id295 == <<"n","_","F","C","r","C","Q","6","-","b","A">>
Q295 == <<"2","9","5">>

\* the hardcoded search hit for the query "295", lines 471-481
Fixed295 ==
    [id |-> Id295,
     title |-> "295 (Official Audio) | Sidhu Moose Wala | The Kidd | Moosetape",
     duration |-> 273,
     duration_text |-> <<"4",":","3","3">>,
     views |-> <<"7","0","6","0","7","2","1","6","6">>,
     publish_time |-> "2021-05-13",
     channel |-> "Sidhu Moose Wala",
     thumbnail |-> <<"h","t","t","p","s",":","/","/","i",".","y","t","i","m","g",".","c","o","m","/","v","i","_","w","e","b","p","/","n","_","F","C","r","C","Q","6","-","b","A","/","m","a","x","r","e","s","d","e","f","a","u","l","t",".","w","e","b","p">>,
     link |-> WatchPrefix \o Id295]

\* one search entry mapped to video_data, lines 504-516 (a view count is
\* modelled by its str(), the only thing the handler looks at)
search_hit(entry) ==
    [id |-> Get(entry, "id", << >>),
     title |-> Get(entry, "title", "Unknown"),
     duration |-> Get(entry, "duration", 0),
     duration_text |-> Get(entry, "duration_string", <<"0",":","0","0">>),
     views |-> Get(entry, "view_count", <<"0">>),
     publish_time |-> Get(entry, "upload_date", ""),
     channel |-> Get(entry, "uploader", ""),
     thumbnail |-> get_youtube_thumbnail(Get(entry, "id", << >>), Qualities[1]),
     link |-> WatchPrefix \o Get(entry, "id", << >>)]

\* does search_videos call the extraction library for this query
search_calls_upstream(query) == lower(query) # Q295

\* search_videos(query, limit): `out` is what ydl.extract_info does (Raise, None,
\* or a record that may carry 'entries')
search_videos(query, limit, out) ==
    IF lower(query) = Q295 THEN <<Fixed295>>
    ELSE IF out = Raise \/ out = None THEN << >>
    ELSE IF "entries" \notin DOMAIN out THEN << >>
    ELSE LET first == SubSeq(out.entries, 1, IF Len(out.entries) < limit
                                               THEN Len(out.entries) ELSE limit)
             kept == SelectSeq(first, LAMBDA e : e # None)
         IN  [i \in DOMAIN kept |-> search_hit(kept[i])]

\* get_details for a URL or id (the branch lines 576-617, the one the
\* /youtube handler reaches): `out` is what ydl.extract_info does
get_details(url, out) ==
    IF out = Raise \/ out = None THEN None
    ELSE IF extract_best_thumbnail_raises(out) THEN None
    ELSE ensure_thumbnail_availability(
            [id |-> Get(out, "id", << >>),
             title |-> Get(out, "title", "Unknown"),
             duration |-> Get(out, "duration", 0),
             duration_text |-> duration_text_of(Get(out, "duration", 0)),
             channel |-> Get(out, "uploader", ""),
             views |-> Get(out, "view_count", <<"0">>),
             thumbnail |-> extract_best_thumbnail(out),
             link |-> WatchPrefix \o Get(out, "id", << >>)])

----------------------------------------------------------------------------
(* The /youtube handler *)

\* request.host_url.rstrip("/")
HostUrl == "http://api.example"

\* A view count v is modelled by str(v), a character sequence.  Sup2 stands
\* for the character U+00B2 (superscript two), which str.isdigit accepts and
\* int() rejects.
Sup2 == "sup2"

\* str(v).isdigit()
isdigit(sv) == sv # << >> /\ \A i \in DOMAIN sv : sv[i] \in Digits \cup {Sup2}

\* int(v) raises ValueError
int_raises(sv) == \E i \in DOMAIN sv : sv[i] \notin Digits

\* int(v) for a decimal string
RECURSIVE int_of(_)
int_of(sv) ==
    IF sv = << >> THEN 0
    ELSE 10 * int_of(SubSeq(sv, 1, Len(sv) - 1))
         + (CHOOSE d \in 0..9 : DigitSeq[d + 1] = sv[Len(sv)])

\* int(v) if str(v).isdigit() else 0, when it does not raise
views_of(sv) == IF isdigit(sv) THEN int_of(sv) ELSE 0

\* str(e) of the ValueError int() raises (the text quotes the literal)
ValueErrorText == "invalid literal for int() with base 10: '1<sup2>'"

\* the success body, lines 1237-1247 and 1270-1280
response_body(video_data, stream_url, video) ==
    [id |-> video_data.id,
     title |-> video_data.title,
     duration |-> video_data.duration,
     link |-> video_data.link,
     channel |-> video_data.channel,
     views |-> views_of(video_data.views),
     thumbnail |-> video_data.thumbnail,
     stream_url |-> <<HostUrl>> \o stream_url,
     stream_type |-> IF video THEN "Video" ELSE "Audio"]

reply_Mut(status, msg, c, nid, calls) ==
    [status |-> status, body |-> [message |-> msg], exc |-> "", cache |-> c, nextId |-> nid,
     calls |-> calls]

\* a handler result that leaves the cache alone; exc is the text of the
\* exception that reached the handler's except clause ("" when none did)
reply(status, msg, c, nid, calls) ==
    [status |-> status, body |-> [error |-> msg], exc |-> "", cache |-> c, nextId |-> nid,
     calls |-> calls]

\* the end of both branches, after get_stream_url stored the handle (result g):
\* building the response raises when int() rejects the view count, and the
\* except clause (lines 1283-1285) answers 500 with str(e); otherwise 200
respond(video_data, g, video, calls) ==
    IF isdigit(video_data.views) /\ int_raises(video_data.views)
    THEN [status |-> 500, body |-> [error |-> ValueErrorText], exc |-> ValueErrorText,
          cache |-> g.cache, nextId |-> g.nextId, calls |-> calls]
    ELSE [status |-> 200, body |-> response_body(video_data, g.ret, video), exc |-> "",
          cache |-> g.cache, nextId |-> g.nextId, calls |-> calls]

\* line 1252: the URL the direct branch resolves
video_url_of(query) == IF is_youtube_url(query) THEN query ELSE WatchPrefix \o query

\* the URL handed to ydl.extract_info by get_details and get_stream_url for
\* the handler's video_url (both normalize it first, lines 574 and 624)
extraction_url(query) == normalize_url(video_url_of(query), << >>)

youtube_Mut(query, video, sout, dout, info, c, nid, t) ==
    IF query = << >>
    THEN reply(400, "Query parameter is required", c, nid, {})
    ELSE IF ~is_youtube_url(query) /\ ~is_video_id(query)
    THEN LET search_results == search_videos(query, 1, sout)
             calls == IF search_calls_upstream(query) THEN {"search"} ELSE {}
             g == get_stream_url(info, video, c, nid, t)
         IN  IF search_results = << >>
             THEN reply(500, "No videos found", c, nid, calls)
             ELSE IF g.ret = << >>
             THEN reply(500, "Failed to get stream URL", c, nid, calls \cup {"stream"})
             ELSE respond(search_results[1], g, video, calls \cup {"stream"})
    ELSE LET video_url == video_url_of(query)
             video_details == get_details(video_url, dout)
             g == get_stream_url(info, video, c, nid, t)
         IN  IF video_details = None \/ video_details.id = << >>
             THEN reply(404, "No video found", c, nid, {"details"})
             ELSE IF g.ret = << >>
             THEN reply(500, "Failed to get stream URL", c, nid, {"details", "stream"})
             ELSE respond(video_details, g, video, {"details", "stream"})

\* youtube(): the handler body run for an admitted request.  sout, dout and
\* info are what the extraction library does in search_videos, get_details
\* and get_stream_url; calls is the set of those that were invoked.
youtube(query, video, sout, dout, info, c, nid, t) ==
    IF query = << >>
    THEN reply(400, "Query parameter is required", c, nid, {})
    ELSE IF ~is_youtube_url(query) /\ ~is_video_id(query)
    THEN LET search_results == search_videos(query, 1, sout)
             calls == IF search_calls_upstream(query) THEN {"search"} ELSE {}
             g == get_stream_url(info, video, c, nid, t)
         IN  IF search_results = << >>
             THEN reply(404, "No videos found", c, nid, calls)
             ELSE IF g.ret = << >>
             THEN reply(500, "Failed to get stream URL", c, nid, calls \cup {"stream"})
             ELSE respond(search_results[1], g, video, calls \cup {"stream"})
    ELSE LET video_url == video_url_of(query)
             video_details == get_details(video_url, dout)
             g == get_stream_url(info, video, c, nid, t)
         IN  IF video_details = None \/ video_details.id = << >>
             THEN reply(404, "No video found", c, nid, {"details"})
             ELSE IF g.ret = << >>
             THEN reply(500, "Failed to get stream URL", c, nid, {"details", "stream"})
             ELSE respond(video_details, g, video, {"details", "stream"})

----------------------------------------------------------------------------
(* The /stream proxy and the sweep *)

\* the headers of the media response, lines 1326-1329
MediaHeaders == [accept_ranges |-> "bytes", cache_control |-> "no-cache"]

\* what the upstream does with the GET: it answers with a status, possibly a
\* Content-Range header, and a body (the media or an error page), of which it
\* delivers `chunks` chunks and then either ends the body or fails (a failure
\* before the first chunk is a connection that could not be made)
Upstream(status, content_range, body, chunks, fails) ==
    [status |-> status, content_range |-> content_range, body |-> body,
     chunks |-> chunks, fails |-> fails]
NoRelay == Upstream(0, "", "none", 0, FALSE)

generate_Checked(url, request_headers, up) ==
    [sent |-> [url |-> url, range |-> Get(request_headers, "Range", "bytes=0-")],
     chunks |-> IF up.status >= 400 THEN 0 ELSE up.chunks,
     relayed |-> IF up.status >= 400 \/ up.chunks = 0 THEN "none" ELSE up.body,
     raised |-> FALSE]

generate_Mut(url, request_headers, up) ==
    [sent |-> [url |-> url, range |-> Get(request_headers, "Range", "bytes=0-")],
     chunks |-> up.chunks,
     relayed |-> IF up.chunks > 0 THEN up.body ELSE "none",
     raised |-> up.fails]

\* generate(), the body generator of stream_media: the upstream GET it sends,
\* the number of chunks it yields, what they are chunks of (the upstream's
\* status is not looked at), and whether an exception leaves it (the except
\* clause at lines 1320-1321 logs the failure and lets the generator end)
generate(url, request_headers, up) ==
    [sent |-> [url |-> url, range |-> Get(request_headers, "Range", "bytes=0-")],
     chunks |-> up.chunks,
     relayed |-> IF up.chunks > 0 THEN up.body ELSE "none",
     raised |-> FALSE]

stream_media_Mut(stream_id, c) ==
    IF stream_key(stream_id) \notin DOMAIN c
    THEN [status |-> 404, error |-> "Stream not found or expired", upstream |-> FALSE,
          content_type |-> "application/json", headers |-> << >>, cache |-> c]
    ELSE LET stream == c[stream_key(stream_id)]
         IN  IF stream.url = << >>
             THEN [status |-> 500, error |-> "Invalid stream URL", upstream |-> FALSE,
                   content_type |-> "application/json", headers |-> << >>, cache |-> c]
             ELSE [status |-> 200, error |-> "", upstream |-> TRUE,
                   content_type |-> IF stream.is_video THEN "video/mp4" ELSE "audio/mp4",
                   headers |-> MediaHeaders,
                   cache |-> [k \in DOMAIN c \ {stream_key(stream_id)} |-> c[k]]]

\* stream_media: the lookup and the response head; upstream tells whether the
\* generator issues the upstream GET
stream_media(stream_id, c) ==
    IF stream_key(stream_id) \notin DOMAIN c
    THEN [status |-> 404, error |-> "Stream not found or expired", upstream |-> FALSE,
          content_type |-> "application/json", headers |-> << >>, cache |-> c]
    ELSE LET stream == c[stream_key(stream_id)]
         IN  IF stream.url = << >>
             THEN [status |-> 500, error |-> "Invalid stream URL", upstream |-> FALSE,
                   content_type |-> "application/json", headers |-> << >>, cache |-> c]
             ELSE [status |-> 200, error |-> "", upstream |-> TRUE,
                   content_type |-> IF stream.is_video THEN "video/mp4" ELSE "audio/mp4",
                   headers |-> MediaHeaders,
                   cache |-> c]

swept_at_Mut(entry, t) ==
    IF entry.pytype = "tuple" THEN t - entry.timestamp > CACHE_TIMEOUT
    ELSE IF entry.pytype = "dict" /\ "expires" \in DOMAIN entry
         THEN t > entry.expires - STREAM_TTL
    ELSE FALSE

\* does cleanup_old_files delete this entry at time t
swept_at(entry, t) ==
    IF entry.pytype = "tuple" THEN t - entry.timestamp > CACHE_TIMEOUT
    ELSE IF entry.pytype = "dict" /\ "expires" \in DOMAIN entry THEN t > entry.expires
    ELSE FALSE

cleanup_old_files_Mut(c, t) ==
    [k \in {j \in DOMAIN c : c[j].pytype = "dict" \/ ~swept_at(c[j], t)} |-> c[k]]

\* cleanup_old_files: the pass over the cache
cleanup_old_files(c, t) ==
    [k \in {j \in DOMAIN c : ~swept_at(c[j], t)} |-> c[k]]

----------------------------------------------------------------------------
(* Inputs offered to the model *)

MaxReq == 3

VID == <<"d","Q","w","4","w","9","W","g","X","c","Q">>
UrlQuery == Https \o YoutuBe \o VID
SearchQuery == <<"l","o","f","i">>

\* api_key argument: missing, unknown, a live key, an expired key
KeyInputs == {"", "nokey", "k1", "kx"}
\* query argument: missing/empty, a direct id, a search term
Queries == {<< >>, VID, SearchQuery}

U0 == <<"u","0">>
FormatUrls == <<<<"f","1">>, <<"f","2">>, <<"f","3">>, <<"f","4">>, <<"f","5">>>>

Entry1 == [id |-> VID, title |-> "T", duration |-> 212, view_count |-> <<"7">>, uploader |-> "C"]
SearchOutcomes == {Raise, [entries |-> << >>], [entries |-> <<Entry1>>]}

InfoFull == [id |-> VID, title |-> "T", duration |-> 212, view_count |-> <<"7">>, uploader |-> "C"]
DetailOutcomes == {Raise, [title |-> "T"], InfoFull}

MainInfos ==
    {Raise, [url |-> U0], [url |-> << >>],
     [formats |-> <<[url |-> FormatUrls[1], vcodec |-> "avc1", acodec |-> "mp4a"],
                    [url |-> FormatUrls[2], vcodec |-> "none", acodec |-> "mp4a"]>>]}

\* which outcomes can matter for a query (the others are never looked at and
\* are drawn as None)
SoutFor(query) ==
    IF query # << >> /\ ~is_youtube_url(query) /\ ~is_video_id(query)
       /\ search_calls_upstream(query)
    THEN SearchOutcomes ELSE {None}
DoutFor(query) ==
    IF query # << >> /\ (is_youtube_url(query) \/ is_video_id(query))
    THEN DetailOutcomes ELSE {None}
InfoFor(query) == IF query # << >> THEN MainInfos ELSE {None}

(* Queries of every shape, for the classification: each head followed by
   each tail *)

NL == <<"\n">>
ShortId == <<"a","b","c">>

\* how a query may start: nothing, one of the four URL shapes (bare, or with
\* scheme and www.), another host, another path of the host
QueryHeads ==
    {scheme \o shape :
        scheme \in {<< >>, Https \o Www},
        shape \in {YoutubeCom \o WatchV, YoutuBe, YoutubeCom \o Embed, YoutubeCom \o VSlash}}
    \cup {<< >>, <<"v","i","m","e","o",".","c","o","m","/">>,
          <<"y","o","u","t","u","b","e",".","c","o","m","/","x","/">>}

\* what follows: nothing, an id, an id and a newline, an id and more,
\* twelve id characters, a short token, a short token and then "/" and an id
QueryTails ==
    {<< >>, VID, VID \o NL, VID \o <<"&","t","=","1">>, VID \o <<"Z">>,
     ShortId, ShortId \o <<"/">> \o VID}

ClsQueries == {h \o t : h \in QueryHeads, t \in QueryTails}

\* extraction_url tabulated over the queries offered
ExtractionUrls ==
    [q \in Queries \cup {UrlQuery} \cup ClsQueries |-> extraction_url(q)] @@ << >>

----------------------------------------------------------------------------
(* The result cache: cached(timeout) *)

\* the dict without key k
dict_del(c, k) == [j \in DOMAIN c \ {k} |-> c[j]]

\* the key order of the dict after an action turned it into c2 (a new key
\* goes to the end, a deleted key leaves)
reorder(ord, c2) ==
    LET kept == SelectSeq(ord, LAMBDA k : k \in DOMAIN c2)
        new == DOMAIN c2 \ Range(ord)
    IN  IF new = {} THEN kept ELSE Append(kept, CHOOSE k \in new : TRUE)

\* generate_cache_key: the md5 digest of function name and arguments, for
\* the n-th distinct (function, arguments) combination
cache_key(n) == <<"md5", n>>

\* the pruning loop of cached.wrapper, lines 283-286, from position i of the
\* key list ks: cache[key][1] on a stream dict is a lookup of key 1 in that
\* dict, which raises KeyError and ends the loop
RECURSIVE prune_from(_, _, _, _, _)
prune_from(c, ks, i, t, timeout) ==
    IF i > Len(ks) THEN [cache |-> c, raised |-> FALSE]
    ELSE IF c[ks[i]].pytype = "dict" THEN [cache |-> c, raised |-> TRUE]
    ELSE IF t - c[ks[i]].timestamp > timeout
         THEN prune_from(dict_del(c, ks[i]), ks, i + 1, t, timeout)
         ELSE prune_from(c, ks, i + 1, t, timeout)

cached_wrapper_Mut(k, value, c, ord, t, timeout) ==
    IF k \in DOMAIN c /\ t - c[k].timestamp <= timeout
    THEN [result |-> c[k].result, invoked |-> FALSE, raised |-> FALSE, cache |-> c]
    ELSE LET c1 == (k :> [pytype |-> "tuple", result |-> value, timestamp |-> t]) @@ c
             p == prune_from(c1, reorder(ord, c1), 1, t, timeout)
         IN  [result |-> value, invoked |-> TRUE, raised |-> p.raised, cache |-> p.cache]

\* cached.wrapper for a call whose cache key is k and whose function would
\* return `value`
cached_wrapper(k, value, c, ord, t, timeout) ==
    IF k \in DOMAIN c /\ t - c[k].timestamp < timeout
    THEN [result |-> c[k].result, invoked |-> FALSE, raised |-> FALSE, cache |-> c]
    ELSE LET c1 == (k :> [pytype |-> "tuple", result |-> value, timestamp |-> t]) @@ c
             p == prune_from(c1, reorder(ord, c1), 1, t, timeout)
         IN  [result |-> value, invoked |-> TRUE, raised |-> p.raised, cache |-> p.cache]

----------------------------------------------------------------------------
(* State machine *)

\* a row of api_keys as create_api_key / init_db_data make it at time t
new_key(is_admin, daily_limit, days_valid, t) ==
    [is_admin |-> is_admin, valid_until |-> t + days_valid * DAY,
     daily_limit |-> daily_limit, reset_at |-> t + DAY, count |-> 0]

\* The service has been up for a day less one handle lifetime: the default
\* admin key and three keys made by create_api_key are that old, so the live
\* keys' quota window ends one handle lifetime from now.
Created == STREAM_TTL - DAY

\* the request threads that may be inside cleanup_old_files at the same time
MaxThreads == 2
Threads == 1..MaxThreads

\* no thread is inside required_api_key, no request was admitted
NoGate == [th |-> [t \in Threads |-> [pc |-> "idle", key |-> "", count |-> 0, reset_at |-> 0]],
           admitted |-> << >>]

\* a thread that is not inside cleanup_old_files
NoPass == [pc |-> "idle", snapshot |-> << >>, i |-> 0, current_time |-> 0, error |-> ""]

Init ==
    /\ now = 0
    /\ cache = << >>
    /\ order = << >>
    /\ nextId = 0
    /\ keys = ("jaydip" :> new_key(TRUE, 10000, 3650, Created))
              @@ ("k1" :> new_key(FALSE, 2, 30, Created))
              @@ ("k2" :> new_key(FALSE, 1, 30, Created))
              @@ ("kx" :> new_key(FALSE, 2, 0, Created))
    /\ apilog = 0
    /\ resp = [n |-> 0, endpoint |-> "none"]
    /\ issued = << >>
    /\ uses = << >>
    /\ swept = FALSE
    /\ sweeps = [t \in Threads |-> NoPass]
    /\ gate = NoGate

\* time passes
Tick ==
    /\ now + TickStep <= MaxTicks * TickStep
    /\ now' = now + TickStep
    /\ UNCHANGED <<cache, order, nextId, keys, apilog, resp, issued, uses, swept, sweeps, gate>>

\* before_request with the 1% draw taken: cleanup_old_files runs
Sweep ==
    /\ cache' = cleanup_old_files(cache, now)
    /\ order' = reorder(order, cache')
    /\ swept' = TRUE
    /\ UNCHANGED <<now, nextId, keys, apilog, resp, issued, uses, sweeps, gate>>

\* GET /youtube with the arguments and extraction outcomes drawn from the
\* given sets: required_api_key, then log_api_request and the handler (r is
\* what the one run of the handler gives)
YoutubeRequestOn(KeySet, QuerySet, VideoSet, Souts, Douts, Infos) ==
    /\ resp.n < MaxReq
    /\ \E api_key \in KeySet, query \in QuerySet, video \in VideoSet :
         LET auth == required_api_key(keys, api_key, now)
             head == [n |-> resp.n + 1, endpoint |-> "youtube", api_key |-> api_key,
                      query |-> query, video |-> video, at |-> now]
         IN  IF auth.status # 0
             THEN /\ resp' = head @@ [status |-> auth.status,
                                      body |-> [error |-> auth.error], calls |-> {},
                                      exc |-> "", target |-> << >>,
                                      sout |-> None, dout |-> None, info |-> None]
                  /\ UNCHANGED <<now, cache, order, nextId, keys, apilog, issued, uses, swept, sweeps, gate>>
             ELSE \E sout \in (IF SoutFor(query) = {None} THEN {None} ELSE Souts),
                     dout \in (IF DoutFor(query) = {None} THEN {None} ELSE Douts),
                     info \in (IF InfoFor(query) = {None} THEN {None} ELSE Infos) :
                  \E r \in {youtube(query, video, sout, dout, info, cache, nextId, now)} :
                    LET made == {n \in (nextId + 1)..r.nextId : stream_key(n) \in DOMAIN r.cache}
                    IN  /\ keys' = log_api_request(keys, api_key, now)
                        /\ apilog' = log_rows(keys, api_key, apilog)
                        /\ cache' = r.cache
                        /\ order' = reorder(order, cache')
                        /\ nextId' = r.nextId
                        /\ resp' = head @@ [status |-> r.status, body |-> r.body,
                                            calls |-> r.calls, exc |-> r.exc,
                                            target |-> IF "details" \in r.calls
                                                       THEN ExtractionUrls[query]
                                                       ELSE << >>,
                                            sout |-> sout, dout |-> dout, info |-> info]
                        /\ issued' = [n \in made |-> r.cache[stream_key(n)].expires] @@ issued
                        /\ uses' = [n \in made |-> 0] @@ uses
                        /\ swept' = IF made = {} THEN swept ELSE FALSE
                        /\ UNCHANGED <<now, sweeps, gate>>

YoutubeRequest ==
    YoutubeRequestOn(KeyInputs, Queries, BOOLEAN, SearchOutcomes, DetailOutcomes, MainInfos)

\* GET /stream/<stream_id> with the request headers drawn from Headers and
\* the upstream's behaviour from Upstreams.  after_cut tells that the exchange
\* before this one was a relay of the same handle that the upstream cut.
StreamRequestOn(Headers, Upstreams) ==
    /\ resp.n < MaxReq
    /\ \E stream_id \in 1..MaxReq, request_headers \in Headers, up \in Upstreams :
         \E r \in {stream_media(stream_id, cache)} :
         \E relay \in {IF r.upstream
                       THEN generate(cache[stream_key(stream_id)].url, request_headers, up)
                       ELSE [sent |-> << >>, chunks |-> 0, relayed |-> "none", raised |-> FALSE]} :
             /\ resp' = [n |-> resp.n + 1, endpoint |-> "stream", stream_id |-> stream_id,
                         at |-> now, status |-> r.status, upstream |-> r.upstream,
                         content_type |-> r.content_type,
                         headers |-> r.headers,
                         request_headers |-> request_headers,
                         sent |-> relay.sent,
                         up |-> IF r.upstream THEN up ELSE NoRelay,
                         chunks |-> relay.chunks,
                         relayed |-> relay.relayed,
                         raised |-> relay.raised,
                         after_cut |-> /\ resp.endpoint = "stream"
                                       /\ resp.stream_id = stream_id
                                       /\ resp.up.fails,
                         body |-> IF r.status = 200 THEN [chunks |-> "relayed"]
                                  ELSE [error |-> r.error]]
             /\ cache' = r.cache
             /\ order' = reorder(order, cache')
             /\ uses' = IF r.status # 404 /\ stream_id \in DOMAIN uses
                        THEN [uses EXCEPT ![stream_id] = IF @ < MaxUses THEN @ + 1 ELSE @]
                        ELSE uses
             /\ UNCHANGED <<now, nextId, keys, apilog, issued, swept, sweeps, gate>>

StreamRequest == StreamRequestOn({<< >>}, {Upstream(206, "bytes 0-9/10", "media", 1, FALSE)})

Next == Tick \/ Sweep \/ YoutubeRequest \/ StreamRequest

Spec == Init /\ [][Next]_vars

----------------------------------------------------------------------------
(* Properties of the stream-handle registry and the /stream proxy *)

\* the last exchange was a GET /stream/<id> for a handle that was created
StreamOfIssued == resp.endpoint = "stream" /\ resp.stream_id \in DOMAIN issued

\* C1: a GET /stream/<handle_id> issued after the handle's expiry is answered
\* 404 and makes no upstream request, also when no sweep has removed the entry.
C1_ExpiredHandleNotFound ==
    (StreamOfIssued /\ resp.at > issued[resp.stream_id])
        => (resp.status = 404 /\ ~resp.upstream)

\* C2: a GET /stream/<handle_id> issued strictly before the handle's expiry
\* finds the handle (is not answered 404), whatever GETs, sweeps and handle
\* creations came before.
C2_HandleNotConsumed ==
    (StreamOfIssued /\ resp.at < issued[resp.stream_id]) => resp.status # 404

\* a handle is served a second time, before its expiry, after a sweep ran
C2_Witness ==
    /\ StreamOfIssued
    /\ resp.at < issued[resp.stream_id]
    /\ resp.at > issued[resp.stream_id] - STREAM_TTL
    /\ resp.status = 200
    /\ uses[resp.stream_id] >= 2
    /\ swept

\* C8: every stream handle in the registry holds a non-empty upstream URL.
C8_HandleUrlNonEmpty ==
    \A k \in DOMAIN cache : cache[k].pytype = "dict" => cache[k].url # << >>

----------------------------------------------------------------------------
(* Properties of the API-key gate *)

\* the step handles a GET /youtube
YoutubeStep == resp'.n # resp.n /\ resp'.endpoint = "youtube"

\* the key presented in the step exists and is not expired
KeyLive == resp'.api_key \in DOMAIN keys /\ ~(now > keys[resp'.api_key].valid_until)

\* the step does no resolution work and leaves keys, log and registry alone
Untouched ==
    /\ resp'.calls = {}
    /\ keys' = keys
    /\ apilog' = apilog
    /\ cache' = cache
    /\ nextId' = nextId

\* C3: a request whose key exists, is not expired and has used up its daily
\* limit inside the current window is answered 429; no search, resolution or
\* stream-URL call is made, no handle is created, the count is not changed.
C3_QuotaExhausted ==
    [][(/\ YoutubeStep
        /\ KeyLive
        /\ ~(now > keys[resp'.api_key].reset_at)
        /\ keys[resp'.api_key].count >= keys[resp'.api_key].daily_limit)
       => (resp'.status = 429 /\ Untouched)]_vars

C3_Witness ==
    /\ resp.endpoint = "youtube"
    /\ resp.status = 429
    /\ keys[resp.api_key].count = keys[resp.api_key].daily_limit
    /\ resp.query # << >>

----------------------------------------------------------------------------
(* Properties of the /youtube handler *)

NineFields ==
    {"id", "title", "duration", "link", "channel", "views", "thumbnail",
     "stream_url", "stream_type"}

\* the key presented in the step passes required_api_key
Admitted ==
    /\ KeyLive
    /\ \/ now > keys[resp'.api_key].reset_at
       \/ keys[resp'.api_key].count < keys[resp'.api_key].daily_limit

\* the exchange r resolved its query to metadata: the search had a result, or
\* the extraction for the id / URL gave a record with an id
Resolved(r) ==
    IF ~is_youtube_url(r.query) /\ ~is_video_id(r.query)
    THEN search_videos(r.query, 1, r.sout) # << >>
    ELSE /\ r.dout # Raise
         /\ r.dout # None
         /\ Get(r.dout, "id", << >>) # << >>

\* the status the claim gives the exchange r
ExpectedStatus(r) ==
    IF r.query = << >> THEN 400
    ELSE IF ~Resolved(r) THEN 404
    ELSE IF ~stream_url_of(r.info, r.video).found THEN 500
    ELSE 200

----------------------------------------------------------------------------
(* get_stream_url on its own: every extraction result with up to MaxFormats
   formats, in both modes *)

MaxFormats == 3

\* what a format entry may look like: its url present, empty or missing, its
\* codecs named or 'none'; and an entry that names no codec at all
FormatShapes ==
    ({"url", "empty", "nourl"} \X {"avc1", "none"} \X {"mp4a", "none"}) \cup {<<"url">>}

\* the format entry of shape sh at position i of the list
format_entry(i, sh) ==
    IF Len(sh) = 1 THEN [url |-> FormatUrls[i]]
    ELSE LET codecs == [vcodec |-> sh[2], acodec |-> sh[3]]
         IN  IF sh[1] = "url" THEN codecs @@ [url |-> FormatUrls[i]]
             ELSE IF sh[1] = "empty" THEN codecs @@ [url |-> << >>]
             ELSE codecs

\* the format lists of at most max entries
FormatLists(max) ==
    UNION {{[i \in 1..n |-> format_entry(i, f[i])] : f \in [1..n -> FormatShapes]} :
            n \in 0..max}

\* what the extraction may give: a failure, nothing, or an info dict whose
\* formats list has at most max entries
SelInfos(max) ==
    {Raise, None, [title |-> "T"], [url |-> U0], [url |-> << >>]}
    \cup {[formats |-> l] : l \in FormatLists(max)}
    \cup {[url |-> u, formats |-> l] : u \in {U0, << >>}, l \in FormatLists(max)}

SelInit ==
    /\ now = 0
    /\ cache = << >>
    /\ order = << >>
    /\ nextId = 0
    /\ keys = << >>
    /\ apilog = 0
    /\ \E info \in SelInfos(MaxFormats), is_video \in BOOLEAN :
          resp = [n |-> 0, endpoint |-> "get_stream_url", info |-> info, video |-> is_video]
    /\ issued = << >>
    /\ uses = << >>
    /\ swept = FALSE
    /\ sweeps = [t \in Threads |-> NoPass]
    /\ gate = NoGate

\* one call get_stream_url(url, is_video) whose extraction gives resp.info
GetStreamUrlCall ==
    /\ resp.endpoint = "get_stream_url"
    /\ resp.n = 0
    /\ LET g == get_stream_url(resp.info, resp.video, cache, nextId, now)
       IN  /\ cache' = g.cache
           /\ order' = reorder(order, cache')
           /\ nextId' = g.nextId
           /\ resp' = [n |-> 1, endpoint |-> "get_stream_url", info |-> resp.info,
                       video |-> resp.video, ret |-> g.ret]
    /\ UNCHANGED <<now, keys, apilog, issued, uses, swept, sweeps, gate>>

SelNext == GetStreamUrlCall

SpecSel == SelInit /\ [][SelNext]_vars

\* the call has returned
Selected == resp.endpoint = "get_stream_url" /\ resp.n = 1
\* ... and stored a handle
Stored == Selected /\ resp.ret # << >> /\ stream_key(nextId) \in DOMAIN cache
StoredUrl == cache[stream_key(nextId)].url
HasFormats(info) ==
    info # Raise /\ info # None /\ "formats" \in DOMAIN info /\ info.formats # << >>
HasUrl(info) == info # Raise /\ info # None /\ "url" \in DOMAIN info

\* an entry carries a track unless it names the codec 'none' (an entry that
\* does not name the codec counts as carrying the track)
Carries(f, codec) == codec \in DOMAIN f => f[codec] # "none"

\* the preference chain of the claim: the position of the chosen entry
ChainIndex(formats, is_video) ==
    LET idx == 1..Len(formats)
        both == {i \in idx : Carries(formats[i], "vcodec") /\ Carries(formats[i], "acodec")}
        anyv == {i \in idx : Carries(formats[i], "vcodec")}
        aonly == {i \in idx : Carries(formats[i], "acodec") /\ ~Carries(formats[i], "vcodec")}
        anya == {i \in idx : Carries(formats[i], "acodec")}
        top(S) == CHOOSE i \in S : \A j \in S : j <= i
    IN  IF is_video
        THEN IF both # {} THEN top(both) ELSE IF anyv # {} THEN top(anyv) ELSE Len(formats)
        ELSE IF aonly # {} THEN top(aonly) ELSE IF anya # {} THEN top(anya) ELSE Len(formats)

ChainEntry(info, is_video) == info.formats[ChainIndex(info.formats, is_video)]

OneCombinedTwoVideoOnly(formats) ==
    /\ Len(formats) = 3
    /\ \E c \in 1..3 :
          /\ Carries(formats[c], "vcodec") /\ Carries(formats[c], "acodec")
          /\ "url" \in DOMAIN formats[c]
          /\ \A i \in (1..3) \ {c} :
                Carries(formats[i], "vcodec") /\ ~Carries(formats[i], "acodec")

CombinedEntry(formats) ==
    formats[CHOOSE c \in 1..3 :
                Carries(formats[c], "vcodec") /\ Carries(formats[c], "acodec")]

----------------------------------------------------------------------------
(* Sustained traffic: requests, calls of a cached(CACHE_TIMEOUT) function
   and sweeps, the sweep being taken again and again *)

\* the distinct (function, arguments) combinations called
CacheKeyIds == {1, 2}

\* a call of a function wrapped by cached(timeout), with cache key
\* cache_key(n); the function, if invoked, returns a value drawn from Values;
\* the call returns its result unless the pruning loop raised.  age is the
\* age of the entry the call found under its key (-1: none).
CachedCallOn(Values, Timeouts) ==
    /\ \E n \in CacheKeyIds, value \in Values, timeout \in Timeouts :
         \E w \in {cached_wrapper(cache_key(n), value, cache, order, now, timeout)} :
             /\ cache' = w.cache
             /\ order' = reorder(order, cache')
             /\ resp' = [n |-> resp.n, endpoint |-> "cached", key |-> n, at |-> now,
                         timeout |-> timeout, value |-> value,
                         age |-> IF cache_key(n) \in DOMAIN cache
                                 THEN now - cache[cache_key(n)].timestamp ELSE -1,
                         result |-> w.result, invoked |-> w.invoked,
                         raised |-> w.raised]
    /\ UNCHANGED <<now, nextId, keys, apilog, issued, uses, swept, sweeps, gate>>

CachedCall == CachedCallOn({"value"}, {CACHE_TIMEOUT})

LiveNext ==
    \/ Tick
    \/ Sweep
    \/ YoutubeRequestOn({"k1"}, {VID, UrlQuery}, {FALSE}, {None}, {InfoFull}, {[url |-> U0]})
    \/ StreamRequest
    \/ CachedCall

\* before_request runs before every request and takes the sweep with
\* probability 0.01, so under sustained traffic the sweep keeps being taken
LiveSpec == Init /\ [][LiveNext]_vars /\ WF_vars(Sweep)

\* the instants the clock can show
Instants == {i * TickStep : i \in 0..MaxTicks}

\* C7: with the sweep taken again and again, every stream handle whose expiry
\* has passed and every result-cache entry older than CACHE_TIMEOUT is
\* eventually removed from the cache.
C7_ExpiredEventuallyRemoved ==
    /\ \A h \in 1..MaxReq :
          (stream_key(h) \in DOMAIN cache /\ now > cache[stream_key(h)].expires)
              ~> (stream_key(h) \notin DOMAIN cache)
    /\ \A n \in CacheKeyIds, ts \in Instants :
          (/\ cache_key(n) \in DOMAIN cache
           /\ cache[cache_key(n)].timestamp = ts
           /\ now - ts > CACHE_TIMEOUT)
              ~> ~(cache_key(n) \in DOMAIN cache /\ cache[cache_key(n)].timestamp = ts)

\* an expired handle and an expired result entry have both been removed,
\* while a younger handle is still registered
C7_Witness ==
    /\ \E h \in DOMAIN issued : now > issued[h] /\ stream_key(h) \notin DOMAIN cache
    /\ \E h \in DOMAIN issued : stream_key(h) \in DOMAIN cache
    /\ cache_key(1) \notin DOMAIN cache
    /\ cache_key(2) \in DOMAIN cache
    /\ swept

----------------------------------------------------------------------------
(* Query classification: GET /youtube by an admitted key for queries of
   every shape (each head followed by each tail) *)

ClsRequest ==
    YoutubeRequestOn({"jaydip"}, ClsQueries, {FALSE}, {Raise, [entries |-> <<Entry1>>]},
                     {Raise, InfoFull}, {[url |-> U0]})

ClsNext == ClsRequest

SpecCls == Init /\ [][ClsNext]_vars

\* the last exchange is a GET /youtube that reached the classification
Classified == resp.endpoint = "youtube" /\ resp.status \notin {401, 429} /\ resp.query # << >>

HandledDirect == "details" \in resp.calls
HandledSearch == "details" \notin resp.calls

\* exactly 11 characters from [A-Za-z0-9_-]
ExactId(q) == Len(q) = 11 /\ \A i \in 1..11 : q[i] \in IdChars

\* the URL prefix q begins with
PrefixOf(q) == CHOOSE p \in UrlPrefixes : StartsWith(q, p)

\* C11: every query is classified as exactly one of three kinds: exactly 11
\* characters of [A-Za-z0-9_-] is a direct id, resolved as
\* https://www.youtube.com/watch?v=<query>; a string beginning with one of the
\* four URL shapes is a URL whose extracted id is the 11-character token that
\* follows the prefix; every other string is a search term.
C11_Classification ==
    Classified =>
        LET q == resp.query
        IN  IF ExactId(q)
            THEN HandledDirect /\ resp.target = WatchPrefix \o q
            ELSE IF is_youtube_url(q)
            THEN /\ HandledDirect
                 /\ IdAt(q, Len(PrefixOf(q)) + 1) =>
                       resp.target = WatchPrefix
                           \o SubSeq(q, Len(PrefixOf(q)) + 1, Len(PrefixOf(q)) + 11)
            ELSE HandledSearch

\* C12: a URL-shaped query from which no 11-character id can be extracted is
\* treated as a search term, not as a URL passed on to the resolver.
C12_UnparseableUrlIsSearch ==
    (Classified /\ is_youtube_url(resp.query) /\ extract_video_id(resp.query) = << >>)
        => HandledSearch

----------------------------------------------------------------------------
(* Repeated resolution *)

MetadataFields == {"id", "title", "duration", "link", "channel", "views", "thumbnail"}

\* the metadata carried by the 200 exchange r
Metadata(r) == [f \in MetadataFields |-> r.body[f]]

\* C13: when a direct id that was resolved is resolved again less than
\* CACHE_TIMEOUT later (two /youtube requests with the same id), the second
\* resolution makes no upstream extraction call and returns the same metadata.
C13_SecondResolutionCached ==
    [][(/\ YoutubeStep
        /\ Admitted
        /\ resp.endpoint = "youtube"
        /\ ExactId(resp.query)
        /\ "details" \in resp.calls
        /\ Resolved(resp)
        /\ resp'.query = resp.query
        /\ resp'.at - resp.at < CACHE_TIMEOUT)
       => /\ "details" \notin resp'.calls
          /\ (resp.status = 200 /\ resp'.status = 200)
                => Metadata(resp') = Metadata(resp)]_vars

----------------------------------------------------------------------------
(* The result cache on its own: functions wrapped by cached(timeout) with two
   different timeouts, called while time passes, handles are created and
   sweeps run *)

CacheValues == {"v1", "v2"}

CacheNext ==
    \/ Tick
    \/ Sweep
    \/ CachedCallOn(CacheValues, {TickStep, CACHE_TIMEOUT})
    \/ YoutubeRequestOn({"k1"}, {VID}, {FALSE}, {None}, {InfoFull}, {[url |-> U0]})

CacheSpec == Init /\ [][CacheNext]_vars

\* the step is a call of a cached function (a repeated hit that returns what
\* the previous call returned leaves resp as it is and is not told apart)
CachedStep == resp' # resp /\ resp'.endpoint = "cached"

\* C14: a call whose key has an entry younger than timeout returns the stored
\* value without invoking the function; otherwise (no entry, or an entry of
\* age timeout or more) the function is invoked, its result is the call's
\* result and is stored under the key with the current time.
C14_HitOrFresh ==
    [][CachedStep =>
        LET k == cache_key(resp'.key)
        IN  IF k \in DOMAIN cache /\ now - cache[k].timestamp < resp'.timeout
            THEN /\ ~resp'.invoked
                 /\ resp'.result = cache[k].result
                 /\ cache' = cache
            ELSE /\ resp'.invoked
                 /\ resp'.result = resp'.value
                 /\ k \in DOMAIN cache'
                 /\ cache'[k].result = resp'.value
                 /\ cache'[k].timestamp = now]_vars

\* an entry whose age equals the timeout was found, not served, and replaced
\* by the fresh value
C14_Witness ==
    /\ resp.endpoint = "cached"
    /\ resp.age = resp.timeout
    /\ resp.invoked
    /\ cache[cache_key(resp.key)].timestamp = now
    /\ cache[cache_key(resp.key)].result = resp.value
    /\ now = resp.at

----------------------------------------------------------------------------
(* Failures inside the /youtube handler: requests whose extraction gives a
   view count that int() rejects, besides the ordinary outcomes *)

BadViews == <<"1", Sup2>>
EntryBad == [Entry1 EXCEPT !.view_count = BadViews]
InfoBad == [InfoFull EXCEPT !.view_count = BadViews]

ExcRequest ==
    YoutubeRequestOn({"k1", "jaydip"}, {VID, SearchQuery}, BOOLEAN,
                     {Raise, [entries |-> <<Entry1>>], [entries |-> <<EntryBad>>]},
                     {Raise, InfoFull, InfoBad},
                     {Raise, [url |-> U0]})

ExcNext == ExcRequest \/ StreamRequest

SpecExc == Init /\ [][ExcNext]_vars

\* C15: no text of an internal exception appears in a response: when an
\* exception is raised inside the /youtube handler, the error message of the
\* response body is not the exception's message.
C15_NoExceptionText ==
    (resp.endpoint = "youtube" /\ resp.exc # "") => resp.body.error # resp.exc

----------------------------------------------------------------------------
(* Failure responses *)

FailureStatuses == {400, 401, 404, 429, 500}

\* C16: every non-200 response of /youtube and of /stream/<handle_id>, the 404
\* for a handle id that was never created included, has one of the statuses
\* 400, 401, 404, 429, 500 and a JSON object body with a non-empty `error`.
C16_FailureHasErrorKey ==
    (resp.endpoint \in {"youtube", "stream"} /\ resp.status # 200)
        => /\ resp.status \in FailureStatuses
           /\ "error" \in DOMAIN resp.body
           /\ resp.body.error # ""

\* a GET /stream for an id no handle was ever created with, after a /youtube
\* request failed
C16_Witness ==
    /\ resp.endpoint = "stream"
    /\ resp.stream_id \notin DOMAIN issued
    /\ resp.status = 404
    /\ resp.body = [error |-> "Stream not found or expired"]
    /\ resp.n = 2
    /\ apilog = 1

----------------------------------------------------------------------------
(* The streaming proxy on its own: handles of both modes, with and without
   URL; GETs with and without Range header; an upstream that delivers the
   body, cuts it after a chunk, or cannot be connected *)

RangeHeaders == {<< >>, [Range |-> "bytes=100-"], [Range |-> ""]}
Upstreams == {Upstream(206, "bytes 100-109/110", "media", 2, FALSE),
              Upstream(206, "bytes 0-9/10", "media", 1, TRUE),
              Upstream(0, "", "none", 0, TRUE),
              Upstream(200, "", "media", 2, FALSE),
              Upstream(403, "", "error page", 1, FALSE),
              Upstream(404, "", "error page", 1, FALSE)}

StreamNext ==
    \/ Tick
    \/ Sweep
    \/ YoutubeRequestOn({"jaydip"}, {VID}, BOOLEAN, {None}, {InfoFull},
                        {[url |-> U0], [url |-> << >>]})
    \/ StreamRequestOn(RangeHeaders, Upstreams)

SpecStream == Init /\ [][StreamNext]_vars

\* the step handles a GET /stream/<id>
StreamStep == resp'.n # resp.n /\ resp'.endpoint = "stream"

\* C17: when the upstream fails while a /stream response is relayed, the
\* response's stream ends with the chunks received so far and the failure does
\* not propagate: no exception leaves the generator, the handle stays in the
\* registry and nothing else changes; a later GET on the same handle, while
\* it is registered, is served again.
C17_UpstreamFailureContained ==
    [][StreamStep =>
        /\ (resp'.status = 200 /\ resp'.up.fails)
              => /\ ~resp'.raised
                 /\ resp'.chunks = resp'.up.chunks
                 /\ stream_key(resp'.stream_id) \in DOMAIN cache'
                 /\ UNCHANGED <<cache, order, nextId, keys, apilog, issued>>
        /\ (resp'.after_cut /\ stream_key(resp'.stream_id) \in DOMAIN cache)
              => (resp'.status = 200 /\ resp'.upstream)]_vars

\* after a relay that the upstream cut, the same handle is relayed in full
C17_Witness ==
    /\ resp.endpoint = "stream"
    /\ resp.after_cut
    /\ resp.status = 200
    /\ ~resp.up.fails
    /\ resp.chunks = 2
    /\ ~resp.raised

\* the last exchange is a GET /stream/<id> that found a handle
FoundHandle == resp.endpoint = "stream" /\ resp.status # 404

\* C18: for a found handle the upstream GET carries the client's Range header
\* value unchanged, or bytes=0- when the client sent none, and the response
\* has Content-Type video/mp4 for a video-mode handle and audio/mp4 for an
\* audio-mode handle, with Accept-Ranges: bytes and Cache-Control: no-cache.
C18_RangeAndHeaders ==
    FoundHandle =>
        /\ resp.upstream
        /\ resp.sent.range = (IF "Range" \in DOMAIN resp.request_headers
                              THEN resp.request_headers.Range ELSE "bytes=0-")
        /\ stream_key(resp.stream_id) \in DOMAIN cache =>
              resp.content_type = (IF cache[stream_key(resp.stream_id)].is_video
                                   THEN "video/mp4" ELSE "audio/mp4")
        /\ resp.headers = [accept_ranges |-> "bytes", cache_control |-> "no-cache"]

----------------------------------------------------------------------------
(* Request threads side by side.  app.run serves every request on a thread
   of its own and `cache` is a plain dict without a lock.  One dict operation
   is atomic under the interpreter lock; cleanup_old_files is a loop of such
   operations over a snapshot of the keys, and other threads run between
   them.  The handle store of get_stream_url and the lookup of stream_media
   are one dict operation each.  No function of the program is wrapped by
   cached, so handles are the only entries the running program stores. *)

\* cleanup_old_files enters: current_time = time.time(), list(cache.keys())
CleanupStart(t) ==
    /\ sweeps[t].pc = "idle"
    /\ cache # << >>
    /\ sweeps' = [sweeps EXCEPT ![t] = [pc |-> "loop", snapshot |-> order, i |-> 1,
                                        current_time |-> now, error |-> ""]]
    /\ UNCHANGED <<now, cache, order, nextId, keys, apilog, resp, issued, uses, swept, gate>>

\* the tests of one loop round: they read cache[key], which raises KeyError
\* when the key has gone since the snapshot; the except clause of the
\* function then ends the pass
CleanupTest(t) ==
    LET s == sweeps[t]
    IN  /\ s.pc = "loop"
        /\ sweeps' = [sweeps EXCEPT ![t] =
              IF s.i > Len(s.snapshot) THEN [s EXCEPT !.pc = "done"]
              ELSE IF s.snapshot[s.i] \notin DOMAIN cache
                   THEN [s EXCEPT !.pc = "done", !.error = "KeyError"]
              ELSE IF swept_at(cache[s.snapshot[s.i]], s.current_time)
                   THEN [s EXCEPT !.pc = "del"]
              ELSE [s EXCEPT !.i = s.i + 1]]
        /\ UNCHANGED <<now, cache, order, nextId, keys, apilog, resp, issued, uses, swept, gate>>

\* del cache[key]
CleanupDelete(t) ==
    LET s == sweeps[t]
        key == s.snapshot[s.i]
    IN  /\ s.pc = "del"
        /\ IF key \in DOMAIN cache
           THEN /\ cache' = [k \in DOMAIN cache \ {key} |-> cache[k]]
                /\ order' = reorder(order, cache')
                /\ sweeps' = [sweeps EXCEPT ![t] = [s EXCEPT !.pc = "loop", !.i = s.i + 1]]
           ELSE /\ sweeps' = [sweeps EXCEPT ![t] = [s EXCEPT !.pc = "done", !.error = "KeyError"]]
                /\ UNCHANGED <<cache, order>>
        /\ UNCHANGED <<now, nextId, keys, apilog, resp, issued, uses, swept, gate>>

\* cleanup_old_files returns
CleanupReturn(t) ==
    /\ sweeps[t].pc = "done"
    /\ sweeps' = [sweeps EXCEPT ![t] = NoPass]
    /\ UNCHANGED <<now, cache, order, nextId, keys, apilog, resp, issued, uses, swept, gate>>

ConcNext ==
    \/ Tick
    \/ YoutubeRequestOn({"jaydip"}, {VID}, {FALSE}, {None}, {InfoFull}, {[url |-> U0]})
    \/ StreamRequest
    \/ \E t \in Threads : CleanupStart(t)
    \/ \E t \in Threads : CleanupTest(t)
    \/ \E t \in Threads : CleanupDelete(t)
    \/ \E t \in Threads : CleanupReturn(t)

SpecConc == Init /\ [][ConcNext]_vars

\* C19: under any interleaving of requests that create handles, look up
\* handles, write result-cache entries and run sweeps, no operation fails or
\* is cut short because another request modified the map meanwhile, and no
\* unexpired entry is lost.
C19_NoInterference ==
    /\ \A t \in Threads : sweeps[t].error = ""
    /\ \A n \in DOMAIN issued : issued[n] >= now => stream_key(n) \in DOMAIN cache

----------------------------------------------------------------------------
(* The resolver as a function: get_details with both of its branches, and
   search_videos *)

RECURSIVE Split(_, _)
\* str.split(sep) for a one-character separator
Split(s, sep) ==
    IF \A i \in DOMAIN s : s[i] # sep THEN <<s>>
    ELSE LET k == CHOOSE i \in DOMAIN s : s[i] = sep /\ \A j \in 1..(i - 1) : s[j] # sep
         IN  <<SubSeq(s, 1, k - 1)>> \o Split(SubSeq(s, k + 1, Len(s)), sep)

\* int(s) succeeds (strings of digits and ':' are the ones offered)
numeric(s) == s # << >> /\ \A i \in DOMAIN s : s[i] \in Range(DigitSeq)

\* time_to_seconds: the bare except turns every failed int() into 0
time_to_seconds(time_str) ==
    IF time_str = << >> THEN 0
    ELSE LET parts == Split(time_str, ":")
         IN  IF Len(parts) = 2
             THEN IF numeric(parts[1]) /\ numeric(parts[2])
                  THEN int_of(parts[1]) * 60 + int_of(parts[2]) ELSE 0
             ELSE IF Len(parts) = 3
             THEN IF numeric(parts[1]) /\ numeric(parts[2]) /\ numeric(parts[3])
                  THEN int_of(parts[1]) * 3600 + int_of(parts[2]) * 60 + int_of(parts[3])
                  ELSE 0
             ELSE IF numeric(time_str) THEN int_of(time_str)
             ELSE 0

\* the keys the search branch subscripts
SearchKeys == {"id", "title", "duration", "channel", "viewCount", "thumbnails", "link"}

\* get_details, the branch for a query that is neither a YouTube URL nor an
\* 11-character id: `results` is what VideosSearch(url, limit=1).result()
\* does; a raised exception (a missing key, no results) gives None
get_details_search(url, results) ==
    IF results = Raise \/ results = None THEN None
    ELSE IF results.result = << >> THEN None
    ELSE LET video == results.result[1]
         IN  IF ~(SearchKeys \subseteq DOMAIN video) THEN None
             ELSE [id |-> video.id,
                   title |-> video.title,
                   duration |-> time_to_seconds(video.duration),
                   duration_text |-> video.duration,
                   channel |-> video.channel,
                   views |-> video.viewCount.text,
                   thumbnail |-> IF video.thumbnails # << >>
                                 THEN video.thumbnails[Len(video.thumbnails)].url
                                 ELSE << >>,
                   link |-> video.link]

\* get_details(url): the test at line 553 chooses the branch
get_details_of(url, out, results) ==
    IF ~is_youtube_url(url) /\ ~is_video_id(url)
    THEN get_details_search(url, results)
    ELSE get_details(normalize_url(url, << >>), out)

T1 == <<"t","1">>
T2 == <<"t","2">>
T3 == <<"t","3">>

\* what ydl.extract_info gives for one video: with and without id, with the
\* thumbnail list absent, empty, holding unusable entries, or two variants,
\* with and without the direct thumbnail field
ThumbLists == {<< >>, <<None>>, <<[url |-> << >>]>>,
               <<[url |-> T1, width |-> 4, height |-> 3], [url |-> T2, width |-> 2, height |-> 2]>>,
               <<[url |-> T2, width |-> 2, height |-> 2], [url |-> T1, width |-> 4, height |-> 3]>>,
               <<[url |-> T1], [url |-> T2, width |-> 1, height |-> 1]>>,
               <<[url |-> T1, height |-> 3, nones |-> {"width"}]>>}
ThumbInfos ==
    {Raise, None}
    \cup {ids @@ lists @@ direct @@ [title |-> "T"] :
            ids \in {<< >>, [id |-> VID]},
            lists \in {<< >>} \cup {[thumbnails |-> l] : l \in ThumbLists},
            direct \in {<< >>, [thumbnail |-> << >>], [thumbnail |-> T3]}}

\* one result of the search library
SearchVideo(thumbnails) ==
    [id |-> VID, title |-> "T", duration |-> <<"3",":","3","2">>, channel |-> "C",
     viewCount |-> [text |-> <<"7"," ","v","i","e","w","s">>],
     thumbnails |-> thumbnails, link |-> WatchPrefix \o VID]
SearchResults ==
    {Raise, [result |-> << >>], [result |-> <<[id |-> VID, title |-> "T"]>>]}
    \cup {[result |-> <<SearchVideo(l)>>] : l \in {<< >>, <<[url |-> T1]>>, <<[url |-> T1], [url |-> T2]>>}}

\* what ydl.extract_info gives for a search
ThumbEntries ==
    {Raise, [title |-> "T"], [entries |-> << >>], [entries |-> <<None>>],
     [entries |-> <<Entry1>>], [entries |-> <<[title |-> "T"]>>],
     [entries |-> <<[title |-> "T"], Entry1>>], [entries |-> <<Entry1, [id |-> Id295]>>]}

\* the calls offered
MetaCalls ==
    {[n |-> 0, endpoint |-> "get_details", url |-> u, out |-> o, results |-> None, limit |-> 1] :
        u \in {VID, UrlQuery}, o \in ThumbInfos}
    \cup {[n |-> 0, endpoint |-> "extract_best_thumbnail", url |-> << >>, out |-> o,
           results |-> None, limit |-> 1] : o \in ThumbInfos \ {Raise, None}}
    \cup {[n |-> 0, endpoint |-> "get_details", url |-> SearchQuery, out |-> None, results |-> r,
           limit |-> 1] : r \in SearchResults}
    \cup {[n |-> 0, endpoint |-> "search_videos", url |-> q, out |-> o, results |-> None, limit |-> l] :
        q \in {SearchQuery, Q295}, o \in ThumbEntries, l \in 1..2}

MetaInit ==
    /\ now = 0
    /\ cache = << >>
    /\ order = << >>
    /\ nextId = 0
    /\ keys = << >>
    /\ apilog = 0
    /\ resp \in MetaCalls
    /\ issued = << >>
    /\ uses = << >>
    /\ swept = FALSE
    /\ sweeps = [t \in Threads |-> NoPass]
    /\ gate = NoGate

\* one call get_details(url); records holds the record it returned, if any
GetDetailsCall ==
    /\ resp.endpoint = "get_details"
    /\ resp.n = 0
    /\ LET d == get_details_of(resp.url, resp.out, resp.results)
       IN  resp' = [resp EXCEPT !.n = 1] @@ [records |-> IF d = None THEN << >> ELSE <<d>>]
    /\ UNCHANGED <<now, cache, order, nextId, keys, apilog, issued, uses, swept, sweeps, gate>>

\* one call search_videos(query, limit); records holds the hits
SearchVideosCall ==
    /\ resp.endpoint = "search_videos"
    /\ resp.n = 0
    /\ resp' = [resp EXCEPT !.n = 1] @@ [records |-> search_videos(resp.url, resp.limit, resp.out)]
    /\ UNCHANGED <<now, cache, order, nextId, keys, apilog, issued, uses, swept, sweeps, gate>>

\* one call extract_best_thumbnail(info_dict)
ExtractBestThumbnailCall ==
    /\ resp.endpoint = "extract_best_thumbnail"
    /\ resp.n = 0
    /\ resp' = [resp EXCEPT !.n = 1]
                @@ [raised |-> extract_best_thumbnail_raises(resp.out),
                    ret |-> IF extract_best_thumbnail_raises(resp.out) THEN << >>
                            ELSE extract_best_thumbnail(resp.out)]
    /\ UNCHANGED <<now, cache, order, nextId, keys, apilog, issued, uses, swept, sweeps, gate>>

MetaNext == GetDetailsCall \/ SearchVideosCall \/ ExtractBestThumbnailCall

SpecMeta == MetaInit /\ [][MetaNext]_vars

\* C20: every metadata record the resolver produces (get_details in its
\* direct branch and in its search branch, every hit of search_videos) that
\* has a non-empty id has a non-empty thumbnail URL.
C20_ThumbnailForKnownId ==
    (resp.endpoint \in {"get_details", "search_videos"} /\ resp.n = 1) =>
        \A i \in DOMAIN resp.records :
            resp.records[i].id # << >> => resp.records[i].thumbnail # << >>

----------------------------------------------------------------------------
(* extract_best_thumbnail as a function *)

\* the listed variants of an info record that have a URL
WithUrl(info_dict) ==
    {x \in Range(Get(info_dict, "thumbnails", << >>)) : x # None /\ Get(x, "url", << >>) # << >>}

\* width x height, a variant without dimensions counting as 0
Area(x) == IF {"width", "height"} \subseteq DOMAIN x /\ none_keys(x) = {}
           THEN x.width * x.height ELSE 0

\* https://i.ytimg.com/vi/<id>/maxresdefault.jpg
PatternUrl(id) == ThumbBase \o id \o <<"/">> \o Qualities[1] \o DotJpg

\* C21: for every info record extract_best_thumbnail returns the URL of a
\* listed variant of maximal width x height among the variants that have a
\* URL; if no variant is present it returns the id-keyed pattern URL with the
\* first quality of the preference order; it never raises.
C21_BestThumbnail ==
    (resp.endpoint = "extract_best_thumbnail" /\ resp.n = 1) =>
        /\ ~resp.raised
        /\ WithUrl(resp.out) # {} =>
              \E x \in WithUrl(resp.out) :
                 /\ resp.ret = x.url
                 /\ \A y \in WithUrl(resp.out) : Area(y) <= Area(x)
        /\ (Get(resp.out, "thumbnails", << >>) = << >> /\ "id" \in DOMAIN resp.out) =>
              resp.ret = PatternUrl(resp.out.id)

----------------------------------------------------------------------------
(* The cookie file and the extraction options (src/youtube_integration.py) *)

\* 24 * 60 * 60 seconds
COOKIE_MAX_AGE == 86400
CookieFile == "cookies.json"

get_current_cookie_file_Mut(file, t) ==
    IF file.exists /\ t - file.st_mtime <= COOKIE_MAX_AGE
    THEN [path |-> CookieFile] ELSE None

\* get_current_cookie_file at time t: the path (as [path |-> ...]) when the
\* file exists and is younger than 24 hours, None otherwise
get_current_cookie_file(file, t) ==
    IF file.exists /\ t - file.st_mtime < COOKIE_MAX_AGE
    THEN [path |-> CookieFile] ELSE None

\* update_ytdl_options(ytdl_options)
update_ytdl_options(ytdl_options, file, t) ==
    LET cookie_file == get_current_cookie_file(file, t)
    IN  IF cookie_file # None
        THEN [k \in DOMAIN ytdl_options \cup {"cookiefile"} |->
                 IF k = "cookiefile" THEN cookie_file.path ELSE ytdl_options[k]]
        ELSE ytdl_options

\* the options clean_ytdl_options_with_auth builds before it asks for the
\* cookie file (the entries that are plain values)
AuthOptions ==
    [format |-> "best[height<=1080]/best", quiet |-> TRUE, no_warnings |-> TRUE,
     noplaylist |-> TRUE, ignoreerrors |-> TRUE, retries |-> 5, socket_timeout |-> 30,
     geo_bypass_country |-> "US"]

\* clean_ytdl_options_with_auth
clean_ytdl_options_with_auth(file, t) == update_ytdl_options(AuthOptions, file, t)

\* the moments of a call, and the ages of the cookie file at the call
CallTimes == {k * TickStep : k \in 0..7}
CookieAges == {-1, 0, 1, 3600, COOKIE_MAX_AGE - 1, COOKIE_MAX_AGE, COOKIE_MAX_AGE + 1,
               2 * COOKIE_MAX_AGE}
CookieFiles(t) ==
    {[exists |-> FALSE, st_mtime |-> 0]} \cup {[exists |-> TRUE, st_mtime |-> t - a] : a \in CookieAges}

CookieInit ==
    /\ now \in CallTimes
    /\ cache = << >>
    /\ order = << >>
    /\ nextId = 0
    /\ keys = << >>
    /\ apilog = 0
    /\ \E file \in CookieFiles(now) :
          resp = [n |-> 0, endpoint |-> "clean_ytdl_options_with_auth", file |-> file]
    /\ issued = << >>
    /\ uses = << >>
    /\ swept = FALSE
    /\ sweeps = [t \in Threads |-> NoPass]
    /\ gate = NoGate

\* one call clean_ytdl_options_with_auth(), which hands its options to
\* update_ytdl_options
CleanOptionsCall ==
    /\ resp.endpoint = "clean_ytdl_options_with_auth"
    /\ resp.n = 0
    /\ resp' = [resp EXCEPT !.n = 1]
               @@ [given |-> AuthOptions, ret |-> clean_ytdl_options_with_auth(resp.file, now)]
    /\ UNCHANGED <<now, cache, order, nextId, keys, apilog, issued, uses, swept, sweeps, gate>>

CookieNext == CleanOptionsCall

SpecCookie == CookieInit /\ [][CookieNext]_vars

\* the call has returned
OptionsReturned == resp.endpoint = "clean_ytdl_options_with_auth" /\ resp.n = 1

\* the cookie file exists and was last modified less than 24 hours ago
CookieFresh == resp.file.exists /\ now - resp.file.st_mtime < 24 * 60 * 60

\* C22: update_ytdl_options adds a cookiefile entry exactly when the cookie
\* file exists and was last modified less than 24 hours ago; otherwise the
\* options come back without a cookiefile entry; in both cases every other
\* option is unchanged and the call returns.
C22_CookiefileIffFresh ==
    OptionsReturned =>
        /\ ("cookiefile" \in DOMAIN resp.ret) <=> CookieFresh
        /\ "cookiefile" \in DOMAIN resp.ret => resp.ret.cookiefile = "cookies.json"
        /\ DOMAIN resp.ret \ {"cookiefile"} = DOMAIN resp.given
        /\ \A k \in DOMAIN resp.given : resp.ret[k] = resp.given[k]

\* both sides of the 24-hour limit were exercised
C22_Witness ==
    /\ OptionsReturned
    /\ resp.file.exists
    /\ now - resp.file.st_mtime = 24 * 60 * 60 - 1
    /\ "cookiefile" \in DOMAIN resp.ret

----------------------------------------------------------------------------
(* The life of a handle *)

\* the registry keys of a cache: the entries that are stream handles
Handles(c) == {k \in DOMAIN c : c[k].pytype = "dict"}

\* the step is a run of cleanup_old_files
SweepStep == swept' /\ UNCHANGED <<now, nextId, keys, apilog, resp, issued, uses>>

\* C23: a handle is created with expiry = creation time + 3600; afterwards no
\* step (lookup, streaming, creation of other handles, cache writes, sweeps)
\* changes its URL, mode or expiry or puts other data under its key; the only
\* change is its removal, by a sweep, after its expiry.
C23_HandleImmutable ==
    [][/\ \A k \in Handles(cache') \ Handles(cache) :
             /\ k \notin DOMAIN cache
             /\ cache'[k].expires = now + 3600
       /\ \A k \in Handles(cache) :
             IF k \in DOMAIN cache' THEN cache'[k] = cache[k]
             ELSE SweepStep /\ now > cache[k].expires]_vars

\* a second handle exists next to an older one, after a lookup of the older
\* one, a cache write and a sweep
C23_Witness ==
    /\ Cardinality(Handles(cache)) = 2
    /\ \E k \in DOMAIN cache : cache[k].pytype = "tuple"
    /\ swept
    /\ \E n \in DOMAIN uses : uses[n] > 0 /\ stream_key(n) \in DOMAIN cache
    /\ \E m, n \in DOMAIN issued : issued[m] < issued[n] /\ stream_key(m) \in DOMAIN cache

----------------------------------------------------------------------------
(* The daily quota over a reset: requests of one limited key (and of an
   expired one) with every outcome of the handler, and the clock *)

QuotaRequest ==
    YoutubeRequestOn({"k1", "kx"}, {<< >>, VID}, {FALSE}, {None}, {Raise, InfoFull},
                     {Raise, [url |-> U0]})

QuotaNext == Tick \/ QuotaRequest

SpecQuota == Init /\ [][QuotaNext]_vars

\* C24: once a key's reset instant has passed, remaining_requests() returns
\* daily_limit, so a key whose count had reached its limit is admitted again;
\* the first admitted request after the reset instant sets count to 1 and
\* reset_at to one day after that request; until the reset instant
\* remaining_requests() is daily_limit minus count.
C24_ResetReopens ==
    [][\A k \in DOMAIN keys :
          /\ now > keys[k].reset_at =>
                remaining_requests(keys[k], now) = keys[k].daily_limit
          /\ now <= keys[k].reset_at =>
                remaining_requests(keys[k], now) = keys[k].daily_limit - keys[k].count
          /\ (/\ YoutubeStep
              /\ resp'.api_key = k
              /\ now > keys[k].reset_at
              /\ ~is_expired(keys[k], now)
              /\ keys[k].daily_limit > 0)
                => /\ resp'.status \notin {401, 429}
                   /\ keys'[k].count = 1
                   /\ keys'[k].reset_at = now + 86400]_vars

\* key k1 (limit 2) was admitted twice, then once more after its reset instant
C24_Witness ==
    /\ resp.endpoint = "youtube"
    /\ resp.api_key = "k1"
    /\ apilog = 3
    /\ resp.status \notin {401, 429}
    /\ keys["k1"].count = 1
    /\ keys["k1"].reset_at = resp.at + 86400

----------------------------------------------------------------------------
(* required_api_key on request threads side by side.  The quota test reads
   the key row; log_api_request, called afterwards, adds one to the count
   and commits.  Nothing holds the row between the two, so other requests
   of the same key run in between.  The count that log_api_request adds to
   is either the row as the thread loaded it for the test (the session still
   holds the object) or the row as it is now. *)

GateKeys == {"k1", "k2"}

\* required_api_key up to the quota test, lines 413-428
GateCheck(t) ==
    /\ gate.th[t].pc = "idle"
    /\ \E k \in GateKeys :
         LET auth == required_api_key(keys, k, now)
         IN  gate' = [gate EXCEPT !.th[t] =
                        [pc |-> IF auth.status = 0 THEN "passed" ELSE "rejected",
                         key |-> k, count |-> keys[k].count, reset_at |-> keys[k].reset_at]]
    /\ UNCHANGED <<now, cache, order, nextId, keys, apilog, resp, issued, uses, swept, sweeps>>

\* log_api_request, line 431, then the handler is entered
GateLog(t) ==
    LET g == gate.th[t]
        loaded == [keys[g.key] EXCEPT !.count = g.count, !.reset_at = g.reset_at]
    IN  /\ g.pc = "passed"
        /\ \E row \in {keys[g.key], loaded} :
              keys' = log_api_request([keys EXCEPT ![g.key] = row], g.key, now)
        /\ apilog' = log_rows(keys, g.key, apilog)
        /\ gate' = [gate EXCEPT !.th[t].pc = "handler",
                                !.admitted = (g.key :> Get(gate.admitted, g.key, 0) + 1) @@ @]
        /\ UNCHANGED <<now, cache, order, nextId, resp, issued, uses, swept, sweeps>>

\* the request is answered
GateReturn(t) ==
    /\ gate.th[t].pc \in {"handler", "rejected"}
    /\ gate' = [gate EXCEPT !.th[t] = NoGate.th[t]]
    /\ UNCHANGED <<now, cache, order, nextId, keys, apilog, resp, issued, uses, swept, sweeps>>

GateNext ==
    \/ \E t \in Threads : GateCheck(t)
    \/ \E t \in Threads : GateLog(t)
    \/ \E t \in Threads : GateReturn(t)

\* the clock stands before the first reset instant, so every admission falls
\* into one window
SpecGate == Init /\ [][GateNext]_vars

\* C25: also when requests with the same key are processed concurrently, the
\* number of requests admitted to the handler between two resets never
\* exceeds the key's daily_limit, and the key's count never exceeds it.
C25_QuotaUnderConcurrency ==
    \A k \in DOMAIN keys :
        /\ Get(gate.admitted, k, 0) <= keys[k].daily_limit
        /\ keys[k].count <= keys[k].daily_limit

----------------------------------------------------------------------------
(* The pruning pass of cached over a map that also holds stream handles *)

\* C27: a cache-miss call of a cached-wrapped function returns the computed
\* value and completes its pruning pass whatever the shared map holds, also
\* with stream-handle entries next to result entries: no exception leaves the
\* call, no expired result entry is left, and no stream handle is removed.
C27_MissPrunesAndReturns ==
    [][(CachedStep /\ resp'.invoked) =>
          /\ ~resp'.raised
          /\ resp'.result = resp'.value
          /\ \A k \in DOMAIN cache' :
                cache'[k].pytype = "tuple" => ~(now - cache'[k].timestamp > resp'.timeout)
          /\ \A k \in Handles(cache) : k \in DOMAIN cache' /\ cache'[k] = cache[k]]_vars

----------------------------------------------------------------------------
(* The admin routes.  A row's id is modelled by its key string (both are
   unique per row); secrets.token_urlsafe gives a key no row has. *)

required_admin_key_Mut(ks, api_key_str, t) ==
    IF api_key_str = "" THEN [status |-> 401, error |-> "Admin API key is required"]
    ELSE IF api_key_str \notin DOMAIN ks \/ ~ks[api_key_str].is_admin
         THEN [status |-> 403, error |-> "Invalid admin API key"]
    ELSE [status |-> 0, error |-> ""]

\* required_admin_key: the checks made before the route runs; status 0 = admitted
required_admin_key(ks, api_key_str, t) ==
    IF api_key_str = "" THEN [status |-> 401, error |-> "Admin API key is required"]
    ELSE IF api_key_str \notin DOMAIN ks \/ ~ks[api_key_str].is_admin
         THEN [status |-> 403, error |-> "Invalid admin API key"]
    ELSE IF is_expired(ks[api_key_str], t)
         THEN [status |-> 401, error |-> "API key has expired"]
    ELSE [status |-> 0, error |-> ""]

\* request.args.get("api_key") or request.args.get("admin_key")
presented_key(api_key, admin_key) == IF api_key # "" THEN api_key ELSE admin_key

\* the keys secrets.token_urlsafe may give
NewKeyNames == {"new1", "new2"}

\* create_api_key with the JSON body `data` and the generated key `token`
create_api_key(ks, data, token, t) ==
    IF data.name = "" THEN [status |-> 400, keys |-> ks]
    ELSE [status |-> 200,
          keys |-> (token :> new_key(data.is_admin, data.daily_limit, data.days_valid, t)) @@ ks]

revoke_api_key_Mut(ks, data) ==
    IF data.id = "" THEN [status |-> 400, keys |-> ks]
    ELSE IF data.id \notin DOMAIN ks THEN [status |-> 404, keys |-> ks]
    ELSE [status |-> 200, keys |-> [j \in DOMAIN ks \ {data.id} |-> ks[j]]]

\* revoke_api_key with the JSON body `data`
revoke_api_key(ks, data) ==
    IF data.id = "" THEN [status |-> 400, keys |-> ks]
    ELSE IF data.id \notin DOMAIN ks THEN [status |-> 404, keys |-> ks]
    ELSE IF ks[data.id].is_admin THEN [status |-> 403, keys |-> ks]
    ELSE [status |-> 200, keys |-> [j \in DOMAIN ks \ {data.id} |-> ks[j]]]

AdminRoutes == {"/admin", "/admin/metrics", "/admin/list_api_keys", "/admin/create_api_key",
                "/admin/revoke_api_key", "/admin/recent_logs"}

NoData == [name |-> "", days_valid |-> 30, daily_limit |-> 100, is_admin |-> FALSE, id |-> ""]

\* the JSON bodies offered to a route
AdminData(route, ks) ==
    IF route = "/admin/create_api_key"
    THEN {[NoData EXCEPT !.name = nm, !.days_valid = d, !.is_admin = a] :
             nm \in {"", "n"}, d \in {0, 30}, a \in BOOLEAN}
    ELSE IF route = "/admin/revoke_api_key"
    THEN {[NoData EXCEPT !.id = i] : i \in {"", "nokey"} \cup DOMAIN ks}
    ELSE {NoData}

\* the route's own work, for an admitted request
admin_route(route, ks, data, token, t) ==
    IF route = "/admin/create_api_key" THEN create_api_key(ks, data, token, t)
    ELSE IF route = "/admin/revoke_api_key" THEN revoke_api_key(ks, data)
    ELSE [status |-> 200, keys |-> ks]

\* a request to an admin route
AdminRequest ==
    /\ resp.n < MaxReq
    /\ \E route \in AdminRoutes, api_key \in {"", "nokey", "k1", "jaydip"} \cup (DOMAIN keys \cap NewKeyNames),
          admin_key \in {"", "jaydip"} :
         LET k == presented_key(api_key, admin_key)
             auth == required_admin_key(keys, k, now)
             head == [n |-> resp.n + 1, endpoint |-> "admin", route |-> route,
                      api_key |-> api_key, admin_key |-> admin_key, at |-> now]
         IN  IF auth.status # 0
             THEN /\ resp' = head @@ [status |-> auth.status, ran |-> FALSE, data |-> NoData]
                  /\ UNCHANGED keys
             ELSE \E data \in AdminData(route, keys) :
                    /\ route = "/admin/create_api_key" => NewKeyNames \ DOMAIN keys # {}
                    /\ LET token == IF NewKeyNames \ DOMAIN keys # {}
                                    THEN CHOOSE x \in NewKeyNames : x \notin DOMAIN keys
                                    ELSE ""
                       IN  \E r \in {admin_route(route, keys, data, token, now)} :
                           /\ resp' = head @@ [status |-> r.status, ran |-> TRUE, data |-> data]
                           /\ keys' = r.keys
    /\ UNCHANGED <<now, cache, order, nextId, apilog, issued, uses, swept, sweeps, gate>>

AdminNext ==
    \/ Tick
    \/ AdminRequest
    \/ YoutubeRequestOn({"k1", "jaydip"}, {VID}, {FALSE}, {None}, {InfoFull}, {[url |-> U0]})

SpecAdmin == Init /\ [][AdminNext]_vars

\* the step handles a request to an admin route
AdminStep == resp'.n # resp.n /\ resp'.endpoint = "admin"

\* the key the step's request presents
Presented == presented_key(resp'.api_key, resp'.admin_key)

\* that key exists, has the admin flag and is not expired
LiveAdmin ==
    /\ Presented \in DOMAIN keys
    /\ keys[Presented].is_admin
    /\ ~(now > keys[Presented].valid_until)

\* C28: every admin route runs its operation only for a key that exists, has
\* the admin flag and is not expired; any other request is rejected, with 401
\* for a missing or an expired admin key and 403 for an unknown or non-admin
\* key, and leaves the key table unchanged; no admin request changes a key's
\* usage count.
C28_AdminGate ==
    [][AdminStep =>
          /\ resp'.ran <=> LiveAdmin
          /\ ~LiveAdmin =>
                /\ keys' = keys
                /\ resp'.status =
                      (IF Presented = "" THEN 401
                       ELSE IF Presented \notin DOMAIN keys THEN 403
                       ELSE IF ~keys[Presented].is_admin THEN 403
                       ELSE 401)
          /\ \A j \in DOMAIN keys \cap DOMAIN keys' :
                keys'[j].count = keys[j].count /\ keys'[j].reset_at = keys[j].reset_at]_vars

\* an admin key that has expired was turned away with 401
C28_Witness ==
    /\ resp.endpoint = "admin"
    /\ resp.status = 401
    /\ ~resp.ran
    /\ resp.api_key \in DOMAIN keys
    /\ keys[resp.api_key].is_admin
    /\ resp.at > keys[resp.api_key].valid_until
    /\ \E j \in DOMAIN keys : keys[j].count > 0

\* the rows with the admin flag
AdminKeys(ks) == {j \in DOMAIN ks : ks[j].is_admin}

\* C29: revoke_api_key never deletes a key with the admin flag (it answers 403
\* and leaves the table unchanged), so after any sequence of create and
\* revoke operations the table holds at least one admin key and the number
\* of admin keys never decreases.
C29_AdminKeysStay ==
    [][/\ AdminKeys(keys) \subseteq AdminKeys(keys')
       /\ AdminKeys(keys') # {}
       /\ (/\ AdminStep
           /\ resp'.ran
           /\ resp'.route = "/admin/revoke_api_key"
           /\ resp'.data.id \in AdminKeys(keys))
             => (resp'.status = 403 /\ keys' = keys)]_vars

\* the revocation of a created admin key was refused, next to the default one
C29_Witness ==
    /\ resp.endpoint = "admin"
    /\ resp.route = "/admin/revoke_api_key"
    /\ resp.ran
    /\ resp.status = 403
    /\ resp.data.id # "jaydip"
    /\ Cardinality(AdminKeys(keys)) = 2

----------------------------------------------------------------------------
(* The head of a /stream response and the upstream's answer *)

\* the last exchange relayed a handle that has a URL
Relayed == resp.endpoint = "stream" /\ resp.upstream

\* C30: for a found handle with a non-empty URL the status and the headers of
\* the /stream response do not depend on the upstream: the client receives
\* 200 with the mode's content type whatever the upstream's status and
\* whatever Range the client sent; the upstream's status and Content-Range
\* are not relayed, and the body the upstream sends, an error page included,
\* is relayed as the media bytes.
C30_HeadFixedBeforeUpstream ==
    Relayed =>
        /\ resp.status = 200
        /\ resp.headers = [accept_ranges |-> "bytes", cache_control |-> "no-cache"]
        /\ resp.content_type \in {"video/mp4", "audio/mp4"}
        /\ stream_key(resp.stream_id) \in DOMAIN cache =>
              (resp.content_type = "video/mp4") = cache[stream_key(resp.stream_id)].is_video
        /\ resp.chunks = resp.up.chunks
        /\ resp.up.chunks > 0 => resp.relayed = resp.up.body

\* an upstream 403 with an error page went out as 200 video/mp4, for a
\* request that carried a Range header
C30_Witness ==
    /\ Relayed
    /\ resp.up.status = 403
    /\ resp.relayed = "error page"
    /\ resp.status = 200
    /\ resp.content_type = "video/mp4"
    /\ "Range" \in DOMAIN resp.request_headers

====
